---- MODULE Spec2Model ----
(***************************************************************************)
(* AddTextLabel (text_label_node.py): a translucent rounded box with       *)
(* opaque text, drawn on every image of a batch.                           *)
(*                                                                         *)
(* Images are grids of pixels.  A tensor pixel is a triple of channel      *)
(* values written as numerators over Denom (v / 256, exact in float32); an *)
(* 8-bit pixel is a tuple of integers 0..255; the returned tensor holds    *)
(* k / 255 per channel and is written by its numerator k.                  *)
(* The rendering of the text by the font engine (its ink box, the coverage *)
(* of each ink pixel, its advance) is an input, as are the font files the  *)
(* machine can load.                                                       *)
(***************************************************************************)
EXTENDS Integers, Sequences, FiniteSets, TLC

VARIABLES
    image,       \* the caller's tensor: [dim, imgs], imgs a sequence of [w, h, px]
    text,        \* the text as the font engine renders it: [ink, glyph, ok, adv]
    opts,        \* font_family, font_size, placement, edge_offset, color_scheme, padding, corner_radius
    env,         \* [platform, loadable, default_sized]: platform.system(), the font paths
                 \* that load, and whether the font of load_default() has a size
    pc,          \* position in add_label
    batch,       \* the local `image` after the unsqueeze (line 104)
    cands,       \* _font_candidates(fam), the list _load_font walks
    k,           \* index of the next candidate to try
    tried,       \* the paths ImageFont.truetype was called with, in call order
    font,        \* the font handle: [kind, path, size, has_size]
    cols,        \* <<text_col, bg_col>> (hex strings as code point sequences)
    i,           \* loop index of line 113
    base,        \* the RGBA working image
    overlay,     \* the RGBA overlay of line 126
    geo,         \* l, t, r, b, tw, th, box_w, box_h, x, y of lines 118-123
    rect,        \* the xy list and radius given to rounded_rectangle, and its fill
    txt,         \* tx, ty and the fill given to draw.text
    out,         \* the list `out`
    result       \* the returned batch, or <<>> before the return

vars == <<image, text, opts, env, pc, batch, cands, k, tried, font, cols, i,
          base, overlay, geo, rect, txt, out, result>>

----------------------------------------------------------------------------
(* Bounds of the explored inputs *)

MaxBatch == 2
MaxW == 4
MaxH == 3
MaxPad == 1
MaxEdge == 1
MaxInk == 2
MaxRadius == 2

----------------------------------------------------------------------------
(* Arithmetic helpers *)

Min(a, b) == IF a <= b THEN a ELSE b
Max(a, b) == IF a >= b THEN a ELSE b
Abs(a) == IF a >= 0 THEN a ELSE -a

\* Python int() of the rational n/d (d > 0): truncation toward zero.
PyInt(n, d) == IF n >= 0 THEN n \div d ELSE -((-n) \div d)

\* numpy round() of the rational n/d (n >= 0, d > 0): round half to even.
RoundHalfEven(n, d) ==
    LET q == n \div d
        rem2 == 2 * (n % d)
    IN IF rem2 < d THEN q
       ELSE IF rem2 > d THEN q + 1
       ELSE IF q % 2 = 0 THEN q ELSE q + 1

Pixels(w, h) == (0 .. w - 1) \X (0 .. h - 1)

----------------------------------------------------------------------------
(* _rgba, lines 10-18 *)

\* A string is the sequence of the code points of its characters:
\* "#FFFFFF" is <<35, 70, 70, 70, 70, 70, 70>>.

\* the characters str.strip() removes (those str.isspace() accepts)
Whitespace ==
    {9, 10, 11, 12, 13, 28, 29, 30, 31, 32, 133, 160, 5760}
      \cup (8192 .. 8202) \cup {8232, 8233, 8239, 8287, 12288}

\* the characters int() skips around a number: 28..31 are not among them
IntWhitespace == Whitespace \ (28 .. 31)

\* the digit zero of every run of ten Unicode decimal digits (category Nd,
\* Unicode 14), "0" (48) first
DecimalZeros ==
    {48, 1632, 1776, 1984, 2406, 2534, 2662, 2790, 2918, 3046, 3174,
     3302, 3430, 3558, 3664, 3792, 3872, 4160, 4240, 6112, 6160, 6470,
     6608, 6784, 6800, 6992, 7088, 7232, 7248, 42528, 43216, 43264,
     43472, 43504, 43600, 44016, 65296, 66720, 68912, 69734, 69872,
     69942, 70096, 70384, 70736, 70864, 71248, 71360, 71472, 71904,
     72016, 72784, 73040, 73120, 92768, 92864, 93008, 120782, 120792,
     120802, 120812, 120822, 123200, 123632, 125264, 130032}

IsDecimal(c) == \E z \in DecimalZeros : z <= c /\ c <= z + 9

\* a digit of base 16: a decimal digit of any script, A-F or a-f
IsHex(c) == IsDecimal(c) \/ (65 <= c /\ c <= 70) \/ (97 <= c /\ c <= 102)

\* the value of one digit of base 16
HexVal(c) ==
    IF 65 <= c /\ c <= 70 THEN c - 55
    ELSE IF 97 <= c /\ c <= 102 THEN c - 87
    ELSE c - (CHOOSE z \in DecimalZeros : z <= c /\ c <= z + 9)

\* _rgba raising: int(..., 16) was given a string that is no number
ValueError == <<"ValueError">>

\* int(s, 16) of a string of two characters, as <<value>>: two digits, or one
\* digit with a sign (43 "+", 45 "-") before it or white space on either
\* side; on anything else int raises, written <<>>.
IntBase16(s) ==
    IF IsHex(s[1]) /\ IsHex(s[2]) THEN <<16 * HexVal(s[1]) + HexVal(s[2])>>
    ELSE IF s[1] = 43 /\ IsHex(s[2]) THEN <<HexVal(s[2])>>
    ELSE IF s[1] = 45 /\ IsHex(s[2]) THEN <<-HexVal(s[2])>>
    ELSE IF s[1] \in IntWhitespace /\ IsHex(s[2]) THEN <<HexVal(s[2])>>
    ELSE IF IsHex(s[1]) /\ s[2] \in IntWhitespace THEN <<HexVal(s[1])>>
    ELSE <<>>

RECURSIVE LStrip(_, _)
LStrip(s, chars) ==
    IF s # <<>> /\ Head(s) \in chars THEN LStrip(Tail(s), chars) ELSE s

RECURSIVE RStrip(_, _)
RStrip(s, chars) ==
    IF s # <<>> /\ s[Len(s)] \in chars
    THEN RStrip(SubSeq(s, 1, Len(s) - 1), chars) ELSE s

\* int(alpha * 255) clamped to 0..255; alpha is the rational alpha[1]/alpha[2],
\* one whose product with 255 a double holds exactly (0.5 and 1.0 are).
AlphaByte(alpha) == Max(0, Min(255, PyInt(alpha[1] * 255, alpha[2])))

\* The tuple (r, g, b, a), or ValueError when a color component is no number.
_rgba(hexstr, alpha) ==
    LET s == LStrip(RStrip(LStrip(hexstr, Whitespace), Whitespace), {35})
        rgb == IF Len(s) = 3
               THEN [n \in 1 .. 3 |-> IntBase16(<<s[n], s[n]>>)]
               ELSE IF Len(s) = 6
               THEN [n \in 1 .. 3 |-> IntBase16(<<s[2 * n - 1], s[2 * n]>>)]
               ELSE [n \in 1 .. 3 |-> <<255>>]
    IN IF \E n \in 1 .. 3 : rgb[n] = <<>> THEN ValueError
       ELSE <<rgb[1][1], rgb[2][1], rgb[3][1], AlphaByte(alpha)>>

HALF == <<1, 2>>
ONE == <<1, 1>>
\* "#FFFFFF" and "#000000"
WHITE == <<35, 70, 70, 70, 70, 70, 70>>
BLACK == <<35, 48, 48, 48, 48, 48, 48>>

\* lines 107-110
Colors(color_scheme) ==
    IF color_scheme = "white_on_black" THEN <<WHITE, BLACK>> ELSE <<BLACK, WHITE>>

----------------------------------------------------------------------------
(* _tensor_to_pil / _pil_to_tensor, lines 20-25 *)

Denom == 256

\* t.clamp(0, 1) on one channel value v / Denom
Clamp01(v) == Max(0, Min(Denom, v))

\* Quantize with astype(uint8) applied without the round(): truncation
QuantizeTruncated(v) == (Clamp01(v) * 255) \div Denom

\* (clamp * 255.0).round().astype(uint8)
Quantize(v) == RoundHalfEven(Clamp01(v) * 255, Denom)

_tensor_to_pil(t) ==
    [w |-> t.w, h |-> t.h,
     px |-> [p \in Pixels(t.w, t.h) |->
               <<Quantize(t.px[p][1]), Quantize(t.px[p][2]), Quantize(t.px[p][3])>>]]

\* Image.convert("RGBA") of an RGB image: alpha 255
ConvertRGBA(im) ==
    [w |-> im.w, h |-> im.h,
     px |-> [p \in Pixels(im.w, im.h) |-> <<im.px[p][1], im.px[p][2], im.px[p][3], 255>>]]

\* Image.convert("RGB") of an RGBA image: the alpha band is dropped
ConvertRGB(im) ==
    [w |-> im.w, h |-> im.h,
     px |-> [p \in Pixels(im.w, im.h) |-> <<im.px[p][1], im.px[p][2], im.px[p][3]>>]]

\* np.array(im) / 255.0: the value k / 255, written k
_pil_to_tensor(im) == im

----------------------------------------------------------------------------
(* _font_candidates / _load_font, lines 27-51 *)

HomeFonts == <<"~/.fonts/DejaVuSansMono.ttf", "~/.local/share/fonts/DejaVuSansMono.ttf">>

_font_candidates(fam, platform) ==
    LET c == IF fam = "Arial"
             THEN <<"Arial.ttf", "arial.ttf", "/Library/Fonts/Arial.ttf",
                    "C:\\Windows\\Fonts\\arial.ttf",
                    "/usr/share/fonts/truetype/msttcorefonts/Arial.ttf">>
             ELSE IF fam = "Monospace"
             THEN <<"DejaVuSansMono.ttf",
                    "/usr/share/fonts/truetype/dejavu/DejaVuSansMono.ttf",
                    "/Library/Fonts/Menlo.ttc",
                    "C:\\Windows\\Fonts\\consola.ttf">>
             ELSE <<>>
    IN IF platform = "linux" THEN c \o HomeFonts ELSE c

\* size of the scalable font of ImageFont.load_default()
DefaultFontSize == 10

TrueType(p, size) == [kind |-> "truetype", path |-> p, size |-> size, has_size |-> TRUE]

\* ImageFont.load_default(): a scalable font of size DefaultFontSize, or the
\* built-in bitmap font, which has no size attribute
DefaultFont(sized) ==
    [kind |-> "default", path |-> "", size |-> IF sized THEN DefaultFontSize ELSE 0,
     has_size |-> sized]

NoFont == [kind |-> "none", path |-> "", size |-> 0, has_size |-> FALSE]

----------------------------------------------------------------------------
(* _text_bbox, lines 53-58 *)

\* font.size read on a font that has none (line 57)
AttributeError == <<"AttributeError">>

\* draw.textbbox gives the ink box (tr.ok) or raises; the except branch then
\* reads the advance and font.size, and that read raises on a size-less font.
_text_bbox(tr, fnt) ==
    IF tr.ok THEN tr.ink
    ELSE IF fnt.has_size THEN <<0, 0, tr.adv, fnt.size>>
    ELSE AttributeError

----------------------------------------------------------------------------
(* _place_xy, lines 60-66 *)

\* _place_xy with the edge offset left out of the bottom coordinate
PlaceXYBottomWithoutEdge(w, h, bw, bh, placement, edge) ==
    IF placement = "top_left" THEN <<edge, edge>>
    ELSE IF placement = "top_right" THEN <<w - bw - edge, edge>>
    ELSE IF placement = "bottom_left" THEN <<edge, h - bh>>
    ELSE IF placement = "bottom_right" THEN <<w - bw - edge, h - bh>>
    ELSE <<(w - bw) \div 2, (h - bh) \div 2>>

\* _place_xy centering with the halving applied to the image size alone
PlaceXYCenterHalvesImageOnly(w, h, bw, bh, placement, edge) ==
    IF placement = "top_left" THEN <<edge, edge>>
    ELSE IF placement = "top_right" THEN <<w - bw - edge, edge>>
    ELSE IF placement = "bottom_left" THEN <<edge, h - bh - edge>>
    ELSE IF placement = "bottom_right" THEN <<w - bw - edge, h - bh - edge>>
    ELSE <<w \div 2 - bw, h \div 2 - bh>>

_place_xy(w, h, bw, bh, placement, edge) ==
    IF placement = "top_left" THEN <<edge, edge>>
    ELSE IF placement = "top_right" THEN <<w - bw - edge, edge>>
    ELSE IF placement = "bottom_left" THEN <<edge, h - bh - edge>>
    ELSE IF placement = "bottom_right" THEN <<w - bw - edge, h - bh - edge>>
    ELSE <<(w - bw) \div 2, (h - bh) \div 2>>

----------------------------------------------------------------------------
(* Geometry of add_label, lines 118-137 *)

\* line 122: box_w, box_h = int(tw + pad * 2), int(th + pad * 2)
BoxSize(tw, th, pad) == <<tw + pad * 2, th + pad * 2>>

\* the clamp of line 128 without the halving
ClampRadiusToSide(corner_radius, box_w, box_h) ==
    Max(0, Min(corner_radius, Min(box_w, box_h)))

\* line 128: rx = max(0, min(int(corner_radius), min(box_w, box_h) // 2))
ClampRadius(corner_radius, box_w, box_h) ==
    Max(0, Min(corner_radius, Min(box_w, box_h) \div 2))

\* line 129: the xy list [x, y, x + box_w, y + box_h]
BoxXY(x, y, box_w, box_h) == <<x, y, x + box_w, y + box_h>>

\* lines 136-137 without the bounding-box offsets l and t
TextOriginWithoutOffsets(x, y, box_w, box_h, tw, th, l, t) ==
    <<PyInt((2 * x + box_w) - tw, 2), PyInt((2 * y + box_h) - th, 2)>>

\* lines 136-137: cx = x + box_w / 2.0; tx = int(cx - tw / 2.0 - l), in halves
TextOrigin(x, y, box_w, box_h, tw, th, l, t) ==
    <<PyInt((2 * x + box_w) - tw - 2 * l, 2),
      PyInt((2 * y + box_h) - th - 2 * t, 2)>>

\* lines 118-123 for one image of size w x h
Measure(w, h, tr, fnt, o) ==
    LET bb == _text_bbox(tr, fnt)
        tw == bb[3] - bb[1]
        th == bb[4] - bb[2]
        bs == BoxSize(tw, th, o.padding)
        xy == _place_xy(w, h, bs[1], bs[2], o.placement, o.edge_offset)
    IN [l |-> bb[1], t |-> bb[2], r |-> bb[3], b |-> bb[4], tw |-> tw, th |-> th,
        box_w |-> bs[1], box_h |-> bs[2], x |-> xy[1], y |-> xy[2]]

----------------------------------------------------------------------------
(* The drawing primitives add_label calls, lines 126-138 *)

\* Image.new("RGBA", size, (0, 0, 0, 0))
NewOverlay(w, h) == [w |-> w, h |-> h, px |-> [p \in Pixels(w, h) |-> <<0, 0, 0, 0>>]]

\* The pixels ImageDraw.rounded_rectangle(xy, radius) asks to paint: the box
\* x0..x1 by y0..y1, both ends included, less the part of each corner square
\* that lies beyond the quarter circle of the given radius.
InRoundedRect(p, xy, radius) ==
    LET cl == xy[1] + radius
        cr == xy[3] - radius
        ct == xy[2] + radius
        cb == xy[4] - radius
        dx == IF p[1] < cl THEN cl - p[1] ELSE IF p[1] > cr THEN p[1] - cr ELSE 0
        dy == IF p[2] < ct THEN ct - p[2] ELSE IF p[2] > cb THEN p[2] - cb ELSE 0
    IN /\ xy[1] <= p[1] /\ p[1] <= xy[3]
       /\ xy[2] <= p[2] /\ p[2] <= xy[4]
       /\ dx * dx + dy * dy <= radius * radius + radius

\* odraw.rounded_rectangle(xy, radius=, fill=): painted pixels take the fill,
\* what falls outside the image is clipped.
RoundedRectangle(im, xy, radius, fill) ==
    [im EXCEPT !.px = [p \in Pixels(im.w, im.h) |->
        IF InRoundedRect(p, xy, radius) THEN fill ELSE im.px[p]]]

\* (a + 128 + ((a + 128) >> 8)) >> 8, the rounded division by 255
Div255(a) == (((a + 128) \div 256) + a + 128) \div 256

\* ((a >> 8) + a) >> 8
ShiftForDiv255(a) == ((a \div 256) + a) \div 256

\* the overlay pasted over the base instead of composited
PastePixel(dst, src) == IF src[4] = 0 THEN dst ELSE src

\* Image.alpha_composite on one pixel pair (7 bits of extra precision)
CompositePixel(dst, src) ==
    IF src[4] = 0 THEN dst
    ELSE LET blend == dst[4] * (255 - src[4])
             outa255 == src[4] * 255 + blend
             coef1 == (src[4] * 255 * 255 * 128) \div outa255
             coef2 == 255 * 128 - coef1
             ch(n) == ShiftForDiv255(src[n] * coef1 + dst[n] * coef2 + 128 * 128) \div 128
         IN <<ch(1), ch(2), ch(3), ShiftForDiv255(outa255 + 128)>>

AlphaComposite(dst, src) ==
    [dst EXCEPT !.px = [p \in Pixels(dst.w, dst.h) |-> CompositePixel(dst.px[p], src.px[p])]]

\* Coverage (0..255) of the glyph mask at offset (dx, dy) inside the ink box.
Coverage(tr, dx, dy) ==
    IF tr.glyph = "solid" \/ (dx + dy) % 2 = 0 THEN 255
    ELSE IF tr.glyph = "antialiased" THEN 128
    ELSE 0

\* draw.text((tx, ty), text, fill=): the ink box of the text lands at
\* (tx + l, ty + t); each pixel is blended with the fill by the mask coverage.
DrawText(im, tx, ty, tr, fill) ==
    LET x0 == tx + tr.ink[1]
        y0 == ty + tr.ink[2]
        inInk(p) == /\ x0 <= p[1] /\ p[1] < tx + tr.ink[3]
                    /\ y0 <= p[2] /\ p[2] < ty + tr.ink[4]
        blendPx(d, m) == [n \in 1 .. 4 |-> Div255(d[n] * (255 - m) + fill[n] * m)]
    IN [im EXCEPT !.px = [p \in Pixels(im.w, im.h) |->
          IF inInk(p) THEN blendPx(im.px[p], Coverage(tr, p[1] - x0, p[2] - y0))
          ELSE im.px[p]]]

\* the result inserted at the front of the list
CollectAtFront(lst, im) == <<im>> \o lst

\* out.append(...), line 140
Collect(lst, im) == Append(lst, im)

----------------------------------------------------------------------------
(* Inputs: the arguments of add_label (lines 91-102, ranges of lines 70-85) *)
(* and the machine it runs on.                                              *)

Placements == {"top_left", "top_right", "bottom_left", "bottom_right", "center"}
Families == {"Arial", "Monospace"}
Schemes == {"white_on_black", "black_on_white"}
Platforms == {"linux", "darwin"}
Glyphs == {"solid", "antialiased", "sparse"}

\* font_size: the smallest value of the declared range 6..256
MinFontSize == 6

\* Channel values of tensor pixels, over Denom: inside, on the edge of and
\* outside [0, 1].
Palette == <<<<0, 0, 0>>, <<256, 256, 256>>, <<128, 64, 300>>, <<-20, 77, 255>>>>

SolidTensor(w, h, c) == [w |-> w, h |-> h, px |-> [p \in Pixels(w, h) |-> c]]

MixedTensor(w, h) ==
    [w |-> w, h |-> h,
     px |-> [p \in Pixels(w, h) |-> Palette[((p[1] + 2 * p[2]) % Len(Palette)) + 1]]]

Tensors(w, h) == {SolidTensor(w, h, Palette[1]), SolidTensor(w, h, Palette[3]), MixedTensor(w, h)}

Options(fam, place, edge, scheme, pad, radius) ==
    [font_family |-> fam, font_size |-> MinFontSize, placement |-> place,
     edge_offset |-> edge, color_scheme |-> scheme, padding |-> pad,
     corner_radius |-> radius]

Rendering(l, t, tw, th, glyph, ok) ==
    [ink |-> <<l, t, l + tw, t + th>>, glyph |-> glyph, ok |-> ok, adv |-> tw + 1]

\* The machine of most runs: Linux, where only the second Arial name loads.
PlainEnv == [platform |-> "linux", loadable |-> {"arial.ttf"}, default_sized |-> TRUE]

Input(img, tr, o, e) == [image |-> img, text |-> tr, opts |-> o, env |-> e]

\* Font resolution: every family, platform and set of loadable candidates,
\* with either default font, the text box measured or not.
FontInputs ==
    { Input([dim |-> 3, imgs |-> <<MixedTensor(MaxW, MaxH)>>],
            Rendering(0, 0, 1, 1, "solid", ok),
            Options(fpl[1], "top_left", 0, "black_on_white", 0, 0),
            [platform |-> fpl[2], loadable |-> fpl[3], default_sized |-> sized]) :
        <<fpl, ok, sized>> \in
          (UNION { UNION { { <<f, q, s>> : s \in SUBSET { _font_candidates(f, q)[n] :
                                                          n \in 1 .. Len(_font_candidates(f, q)) } }
                           : q \in Platforms } : f \in Families \cup {"Other"} })
            \X BOOLEAN \X BOOLEAN }

\* Placement: every image size, box size, placement and edge offset.
PlaceInputs ==
    { Input([dim |-> 4, imgs |-> <<MixedTensor(w, h)>>],
            Rendering(0, 0, tw, th, "solid", TRUE),
            Options("Arial", place, edge, "black_on_white", pad, 0),
            PlainEnv) :
        <<w, h, tw, th, pad, place, edge>> \in
          (1 .. MaxW) \X (1 .. MaxH) \X (0 .. MaxInk) \X (1 .. MaxInk) \X {0, MaxPad}
            \X (Placements \cup {"middle"}) \X (0 .. MaxEdge) }

\* Measurement and corners: ink offsets, the fallback measurement, radii.
BoxInputs ==
    { Input([dim |-> 4, imgs |-> <<MixedTensor(MaxW, MaxH)>>],
            Rendering(lt[1], lt[2], tw, th, "solid", ok),
            Options(fam, place, 0, "white_on_black", pad, radius),
            PlainEnv) :
        <<lt, tw, th, ok, fam, place, pad, radius>> \in
          {<<0, 0>>, <<-1, MaxInk>>, <<MaxInk + 1, 1>>} \X (0 .. MaxInk) \X (1 .. MaxInk)
            \X BOOLEAN \X {"Arial", "Other"} \X {"top_left", "center", "bottom_right"}
            \X (0 .. MaxPad) \X ((-1 .. MaxRadius) \cup {128}) }

RECURSIVE Batches(_, _, _)
Batches(n, w, h) ==
    IF n = 0 THEN {<<>>}
    ELSE { Append(b, t) : b \in Batches(n - 1, w, h), t \in Tensors(w, h) }

\* Pixels: batches of several images, both color schemes, every glyph mask.
PixelInputs ==
    { Input(img, Rendering(1, 0, 2, 1, glyph, TRUE),
            Options("Arial", place, 0, scheme, pad, radius), PlainEnv) :
        <<img, glyph, place, scheme, pad, radius>> \in
          ( { [dim |-> 3, imgs |-> <<t>>] : t \in Tensors(MaxW, MaxH) }
            \cup UNION { { [dim |-> 4, imgs |-> b] : b \in Batches(n, MaxW, MaxH) } :
                         n \in 1 .. MaxBatch } )
            \X Glyphs \X {"top_left", "center"} \X (Schemes \cup {"other"})
            \X {0, MaxPad} \X {0, 1} }

Inputs == FontInputs \cup PlaceInputs \cup BoxInputs \cup PixelInputs

----------------------------------------------------------------------------
(* add_label, lines 91-142 *)

NoImage == [w |-> 0, h |-> 0, px |-> <<>>]
NoGeo == [l |-> 0, t |-> 0, r |-> 0, b |-> 0, tw |-> 0, th |-> 0,
          box_w |-> 0, box_h |-> 0, x |-> 0, y |-> 0]
NoRect == [xy |-> <<0, 0, 0, 0>>, radius |-> 0, fill |-> <<0, 0, 0, 0>>]
NoTxt == [tx |-> 0, ty |-> 0, fill |-> <<0, 0, 0, 0>>]

InitFrom(inputs) ==
    \E inp \in inputs :
        /\ image = inp.image
        /\ text = inp.text
        /\ opts = inp.opts
        /\ env = inp.env
        /\ pc = "start"
        /\ batch = <<>>
        /\ cands = <<>>
        /\ k = 0
        /\ tried = <<>>
        /\ font = NoFont
        /\ cols = <<>>
        /\ i = 0
        /\ base = NoImage
        /\ overlay = NoImage
        /\ geo = NoGeo
        /\ rect = NoRect
        /\ txt = NoTxt
        /\ out = <<>>
        /\ result = <<>>

Init == InitFrom(Inputs)

\* the tensor the caller holds after t.clamp(0, 1), which returns a new tensor
AfterClamp(t) == t

\* lines 103-104, and the call of _load_font up to the candidate list (line 46)
Unsqueeze ==
    /\ pc = "start"
    /\ batch' = image.imgs
    /\ cands' = _font_candidates(opts.font_family, env.platform)
    /\ k' = 1
    /\ pc' = "font"
    /\ UNCHANGED <<image, text, opts, env, tried, font, cols, i, base, overlay,
                   geo, rect, txt, out, result>>

\* the loop of lines 46-50 without the return: it goes on after a font loaded
TryFontWithoutReturn ==
    /\ pc = "font"
    /\ k <= Len(cands)
    /\ tried' = Append(tried, cands[k])
    /\ font' = IF cands[k] \in env.loadable THEN TrueType(cands[k], opts.font_size) ELSE font
    /\ k' = k + 1
    /\ UNCHANGED <<image, text, opts, env, pc, batch, cands, cols, i, base, overlay,
                   geo, rect, txt, out, result>>

\* lines 46-50: one candidate, ImageFont.truetype(p, size) loads or raises
TryFont ==
    /\ pc = "font"
    /\ k <= Len(cands)
    /\ tried' = Append(tried, cands[k])
    /\ IF cands[k] \in env.loadable
       THEN /\ font' = TrueType(cands[k], opts.font_size)
            /\ pc' = "colors"
            /\ k' = k
       ELSE /\ k' = k + 1
            /\ UNCHANGED <<font, pc>>
    /\ UNCHANGED <<image, text, opts, env, batch, cands, cols, i, base, overlay,
                   geo, rect, txt, out, result>>

\* line 51: every candidate failed
LoadDefault ==
    /\ pc = "font"
    /\ k > Len(cands)
    /\ font' = DefaultFont(env.default_sized)
    /\ pc' = "colors"
    /\ UNCHANGED <<image, text, opts, env, batch, cands, k, tried, cols, i, base,
                   overlay, geo, rect, txt, out, result>>

\* lines 107-112
PickColors ==
    /\ pc = "colors"
    /\ cols' = Colors(opts.color_scheme)
    /\ out' = <<>>
    /\ i' = 0
    /\ pc' = "loop"
    /\ UNCHANGED <<image, text, opts, env, batch, cands, k, tried, font, base,
                   overlay, geo, rect, txt, result>>

\* lines 113-123: the next image becomes the RGBA base, the text is measured
\* and the box placed; when _text_bbox raises, add_label ends with the error
BeginImage ==
    /\ pc = "loop"
    /\ i < Len(batch)
    /\ image' = [image EXCEPT !.imgs[i + 1] = AfterClamp(image.imgs[i + 1])]
    /\ base' = ConvertRGBA(_tensor_to_pil(batch[i + 1]))
    /\ IF _text_bbox(text, font) = AttributeError
       THEN /\ pc' = "raised"
            /\ UNCHANGED geo
       ELSE /\ geo' = Measure(batch[i + 1].w, batch[i + 1].h, text, font, opts)
            /\ pc' = "box"
    /\ UNCHANGED <<text, opts, env, batch, cands, k, tried, font, cols, i,
                   overlay, rect, txt, out, result>>

\* lines 126-132: the box on a transparent overlay, composited over the base
DrawBox ==
    /\ pc = "box"
    /\ LET rx == ClampRadius(opts.corner_radius, geo.box_w, geo.box_h)
           xy == BoxXY(geo.x, geo.y, geo.box_w, geo.box_h)
           fill == _rgba(cols[2], HALF)
           ov == RoundedRectangle(NewOverlay(base.w, base.h), xy, rx, fill)
       IN /\ rect' = [xy |-> xy, radius |-> rx, fill |-> fill]
          /\ overlay' = ov
          /\ base' = AlphaComposite(base, ov)
    /\ pc' = "text"
    /\ UNCHANGED <<image, text, opts, env, batch, cands, k, tried, font, cols, i,
                   geo, txt, out, result>>

\* lines 135-140: the text on the composited image, the result appended
DrawLabel ==
    /\ pc = "text"
    /\ LET to == TextOrigin(geo.x, geo.y, geo.box_w, geo.box_h, geo.tw, geo.th, geo.l, geo.t)
           fill == _rgba(cols[1], ONE)
           im == DrawText(base, to[1], to[2], text, fill)
       IN /\ txt' = [tx |-> to[1], ty |-> to[2], fill |-> fill]
          /\ base' = im
          /\ out' = Collect(out, _pil_to_tensor(ConvertRGB(im)))
    /\ i' = i + 1
    /\ pc' = "loop"
    /\ UNCHANGED <<image, text, opts, env, batch, cands, k, tried, font, cols,
                   overlay, geo, rect, result>>

\* line 142: torch.stack(out) is returned
Return ==
    /\ pc = "loop"
    /\ i >= Len(batch)
    /\ result' = out
    /\ pc' = "done"
    /\ UNCHANGED <<image, text, opts, env, batch, cands, k, tried, font, cols, i,
                   base, overlay, geo, rect, txt, out>>

Next ==
    \/ Unsqueeze
    \/ TryFont
    \/ LoadDefault
    \/ PickColors
    \/ BeginImage
    \/ DrawBox
    \/ DrawLabel
    \/ Return

Spec == Init /\ [][Next]_vars

----------------------------------------------------------------------------
(* Vocabulary of the properties *)

Corners == {"top_left", "top_right", "bottom_left", "bottom_right"}

\* the image being labelled has its box placed (geo is set)
Placed == pc \in {"box", "text"}
\* the box of the current image has been drawn and composited
BoxDrawn == pc = "text"
\* image i (1-based) has just been finished: out[i] is its label
Labelled == pc = "loop" /\ i >= 1

PaintedCols == { p[1] : p \in { q \in Pixels(overlay.w, overlay.h) : overlay.px[q][4] # 0 } }
PaintedRows == { p[2] : p \in { q \in Pixels(overlay.w, overlay.h) : overlay.px[q][4] # 0 } }

\* where the ink of the text landed, and the pixels the text touched
InkAt(p) ==
    /\ txt.tx + text.ink[1] <= p[1] /\ p[1] < txt.tx + text.ink[3]
    /\ txt.ty + text.ink[2] <= p[2] /\ p[2] < txt.ty + text.ink[4]
InkCoverage(p) ==
    Coverage(text, p[1] - (txt.tx + text.ink[1]), p[2] - (txt.ty + text.ink[2]))
TextPixel(p) == InkAt(p) /\ InkCoverage(p) > 0
BoxPixel(p) == overlay.px[p][4] # 0

\* k is the 8-bit value nearest to 255 * clamp(v / Denom, 0, 1)
NearestByte(kk, v) ==
    LET c == IF v < 0 THEN 0 ELSE IF v > Denom THEN Denom ELSE v
    IN /\ kk \in 0 .. 255
       /\ 2 * Abs(kk * Denom - 255 * c) <= Denom

\* the whole of lines 114-140 for one tensor image
LabelOf(t) ==
    LET b0 == ConvertRGBA(_tensor_to_pil(t))
        g == Measure(t.w, t.h, text, font, opts)
        ov == RoundedRectangle(NewOverlay(t.w, t.h), BoxXY(g.x, g.y, g.box_w, g.box_h),
                               ClampRadius(opts.corner_radius, g.box_w, g.box_h),
                               _rgba(cols[2], HALF))
        to == TextOrigin(g.x, g.y, g.box_w, g.box_h, g.tw, g.th, g.l, g.t)
    IN _pil_to_tensor(ConvertRGB(
           DrawText(AlphaComposite(b0, ov), to[1], to[2], text, _rgba(cols[1], ONE))))

----------------------------------------------------------------------------
(* Claims *)

\* C1: a batch of N >= 1 images comes back as a batch of exactly N images,
\* output n being the labelled input n, with the width and height of input n.
C1_BatchShapeAndOrder ==
    pc = "done" =>
        /\ Len(result) = Len(image.imgs)
        /\ \A n \in 1 .. Len(image.imgs) :
              /\ result[n].w = image.imgs[n].w
              /\ result[n].h = image.imgs[n].h
              /\ DOMAIN result[n].px = Pixels(image.imgs[n].w, image.imgs[n].h)
              /\ result[n] = LabelOf(image.imgs[n])

C1_Witness ==
    /\ pc = "done"
    /\ Len(result) = 2
    /\ image.imgs[1] # image.imgs[2]
    /\ result[1] # result[2]

\* C2: the box measures text width + 2 * padding by text height + 2 * padding
\* and, on an image that holds it, the painted rectangle covers exactly that
\* many columns and rows from the placement point (x, y).
C2_PaintedBoxHasBoxSize ==
    BoxDrawn =>
        /\ geo.box_w = geo.tw + 2 * opts.padding
        /\ geo.box_h = geo.th + 2 * opts.padding
        /\ (/\ geo.x >= 0 /\ geo.y >= 0
            /\ geo.x + geo.box_w <= base.w /\ geo.y + geo.box_h <= base.h)
           => /\ PaintedCols = geo.x .. (geo.x + geo.box_w - 1)
              /\ PaintedRows = geo.y .. (geo.y + geo.box_h - 1)

\* C3: the radius given to the rounded rectangle lies in 0 .. min(box_w, box_h) / 2
\* and is the requested radius whenever that already lies in the range.
C3_RadiusClamped ==
    BoxDrawn =>
        /\ 0 <= rect.radius
        /\ 2 * rect.radius <= Min(geo.box_w, geo.box_h)
        /\ (0 <= opts.corner_radius /\ 2 * opts.corner_radius <= Min(geo.box_w, geo.box_h))
           => rect.radius = opts.corner_radius

C3_Witness ==
    /\ BoxDrawn
    /\ 2 * opts.corner_radius > Min(geo.box_w, geo.box_h)
    /\ Min(geo.box_w, geo.box_h) >= 2
    /\ rect.radius >= 1
    /\ rect.radius < opts.corner_radius

\* C4: the four corner placements put the box at (edge, edge),
\* (W - boxW - edge, edge), (edge, H - boxH - edge) and
\* (W - boxW - edge, H - boxH - edge).
C4_CornerPlacement ==
    Placed =>
        LET e == opts.edge_offset
            rx == base.w - geo.box_w - e
            by == base.h - geo.box_h - e
        IN /\ opts.placement = "top_left" => (geo.x = e /\ geo.y = e)
           /\ opts.placement = "top_right" => (geo.x = rx /\ geo.y = e)
           /\ opts.placement = "bottom_left" => (geo.x = e /\ geo.y = by)
           /\ opts.placement = "bottom_right" => (geo.x = rx /\ geo.y = by)
           /\ (opts.placement = "top_left" /\ e = 0) => (geo.x = 0 /\ geo.y = 0)

C4_Witness ==
    /\ Placed
    /\ opts.placement = "bottom_left"
    /\ opts.edge_offset = 1
    /\ base.w # base.h
    /\ geo.box_w # geo.box_h
    /\ geo.y < 0

\* C5: with placement center, or any placement that is no corner, the center
\* of the box is within one pixel of the center of the image in each axis.
C5_CenterPlacement ==
    (Placed /\ opts.placement \notin Corners) =>
        /\ Abs((2 * geo.x + geo.box_w) - base.w) <= 2
        /\ Abs((2 * geo.y + geo.box_h) - base.h) <= 2

C5_Witness ==
    /\ Placed
    /\ opts.placement = "middle"
    /\ geo.box_w >= base.w + 3
    /\ geo.x < 0
    /\ (base.w - geo.box_w) % 2 = 1

\* the pixel under the text: the background with the box composited over it
UnderText(p) ==
    CompositePixel(ConvertRGBA(_tensor_to_pil(batch[i])).px[p], overlay.px[p])

\* the box at half alpha, its colors by the scheme, and every box pixel the
\* text does not touch within 1/255 of the midpoint of box color and background
HalfBlendedBox ==
    LET boxCol == rect.fill
        textCol == txt.fill
        bg == _tensor_to_pil(batch[i])
    IN /\ Abs(2 * boxCol[4] - 255) <= 1
       /\ textCol[4] = 255
       /\ opts.color_scheme = "white_on_black" =>
             (SubSeq(boxCol, 1, 3) = <<0, 0, 0>> /\ SubSeq(textCol, 1, 3) = <<255, 255, 255>>)
       /\ opts.color_scheme = "black_on_white" =>
             (SubSeq(boxCol, 1, 3) = <<255, 255, 255>> /\ SubSeq(textCol, 1, 3) = <<0, 0, 0>>)
       /\ \A p \in Pixels(base.w, base.h) :
             (BoxPixel(p) /\ ~TextPixel(p)) =>
                 \A n \in 1 .. 3 :
                     Abs(2 * out[i].px[p][n] - (boxCol[n] + bg.px[p][n])) <= 2

\* C6 as claimed: the box is composited at half alpha and the text after it at
\* full alpha: a box pixel the text does not touch is, per channel, within
\* 1/255 of the midpoint of box color and background, and every pixel the
\* text touches has the pure text color, with no blending.
C6_TextPixelsPure ==
    Labelled =>
        /\ HalfBlendedBox
        /\ \A p \in Pixels(base.w, base.h) :
              TextPixel(p) => out[i].px[p] = SubSeq(txt.fill, 1, 3)

\* C6 as amended: the same for the box; a pixel the glyph mask covers fully
\* has the pure text color, and a pixel it covers in part (an anti-aliased
\* edge) is, per channel, within 1/255 of the mix of the text color and the
\* pixel under the text, weighted by the coverage.
C6_HalfBlendThenOpaqueText ==
    Labelled =>
        /\ HalfBlendedBox
        /\ \A p \in Pixels(base.w, base.h) :
              /\ (InkAt(p) /\ InkCoverage(p) = 255) =>
                    out[i].px[p] = SubSeq(txt.fill, 1, 3)
              /\ TextPixel(p) =>
                    \A n \in 1 .. 3 :
                        Abs(255 * out[i].px[p][n]
                            - (InkCoverage(p) * txt.fill[n]
                               + (255 - InkCoverage(p)) * UnderText(p)[n])) <= 255

C6_Witness ==
    /\ Labelled
    /\ opts.color_scheme = "white_on_black"
    /\ \E p \in Pixels(base.w, base.h) :
          /\ BoxPixel(p) /\ ~TextPixel(p)
          /\ _tensor_to_pil(batch[i]).px[p] = <<128, 64, 255>>
          /\ out[i].px[p] = <<64, 32, 128>>
    /\ \E p \in Pixels(base.w, base.h) :
          /\ InkAt(p) /\ InkCoverage(p) = 255
          /\ out[i].px[p] = <<255, 255, 255>>
    /\ \E p \in Pixels(base.w, base.h) :
          /\ InkAt(p) /\ InkCoverage(p) = 128
          /\ out[i].px[p] # <<255, 255, 255>>
          /\ out[i].px[p] # SubSeq(UnderText(p), 1, 3)

\* C7: font resolution never fails: the candidates are tried in list order,
\* the first that loads is the font and none after it is tried, the default
\* font is used when none loads, and add_label completes without an error.
C7_FontResolved ==
    LET n == Len(cands)
        hits == { j \in 1 .. n : cands[j] \in env.loadable }
        first == CHOOSE j \in hits : \A m \in hits : j <= m
    IN /\ pc = "font" => (tried = SubSeq(cands, 1, k - 1) /\ \A j \in 1 .. k - 1 : j \notin hits)
       /\ pc \notin {"start", "font"} =>
             IF hits = {}
             THEN font = DefaultFont(env.default_sized) /\ tried = cands
             ELSE /\ font = TrueType(cands[first], opts.font_size)
                  /\ tried = SubSeq(cands, 1, first)

C7_FontNeverFails == C7_FontResolved /\ pc # "raised"

\* C8: the text is centered in the box by its measured bounding box: the
\* center of the ink rectangle (tx + l + tw/2, ty + t + th/2) is within one
\* pixel of the center of the box in each axis.
C8_TextCentered ==
    Labelled =>
        /\ Abs((2 * (txt.tx + geo.l) + geo.tw) - (2 * geo.x + geo.box_w)) <= 2
        /\ Abs((2 * (txt.ty + geo.t) + geo.th) - (2 * geo.y + geo.box_h)) <= 2

C8_Witness ==
    /\ Labelled
    /\ geo.l >= 3
    /\ geo.t # 0
    /\ geo.tw >= 1
    /\ txt.tx < 0

\* C9: a pixel outside both the rendered box and the drawn text keeps its
\* input value, clamped to [0, 1] and rounded to 8 bits; every output channel
\* is a multiple of 1/255 in [0, 1]; the caller's tensor is never modified.
C9_FrameOK ==
    Labelled =>
        \A p \in Pixels(base.w, base.h) : \A n \in 1 .. 3 :
            /\ out[i].px[p][n] \in 0 .. 255
            /\ (~BoxPixel(p) /\ ~InkAt(p)) => NearestByte(out[i].px[p][n], batch[i].px[p][n])

C9_Frame == [][image' = image /\ C9_FrameOK']_vars

C9_Witness ==
    /\ Labelled
    /\ \E p \in Pixels(base.w, base.h) :
          /\ ~BoxPixel(p) /\ ~InkAt(p)
          /\ batch[i].px[p] = <<128, 64, 300>>
          /\ out[i].px[p] = <<128, 64, 255>>
    /\ \E p \in Pixels(base.w, base.h) :
          BoxPixel(p) /\ out[i].px[p] # _tensor_to_pil(batch[i]).px[p]

\* C10: whenever boxW + edge <= W and boxH + edge <= H, every placement
\* yields a box inside the image: each column and row the rounded rectangle
\* [x, y, x + boxW, y + boxH] paints has its index in 0..W-1 and 0..H-1.
C10_BoxInsideImage ==
    (/\ BoxDrawn
     /\ opts.edge_offset >= 0
     /\ geo.box_w + opts.edge_offset <= base.w
     /\ geo.box_h + opts.edge_offset <= base.h)
    => \A p \in (rect.xy[1] .. rect.xy[3]) \X (rect.xy[2] .. rect.xy[4]) :
          InRoundedRect(p, rect.xy, rect.radius) => p \in Pixels(base.w, base.h)

====
